---------------------------- MODULE Spec2Model ----------------------------
(***************************************************************************)
(* Canonical-form bookkeeping of mpopt's matrix product states.            *)
(*                                                                         *)
(* The physical state is a generic normalised wavefunction on N sites,     *)
(* given by its Vidal form: site tensors Gamma[0..N-1] and the Schmidt     *)
(* spectra Lambda[1..N-1] of the internal bonds (bonds 0 and N are the     *)
(* ghost bonds of dimension 1).  "triv" is the set of internal bonds of    *)
(* dimension 1 (an unentangled cut); every other bond has dimension >= 2   *)
(* and a generic spectrum.                                                 *)
(*                                                                         *)
(* A site tensor is kept symbolically: the Gamma of its site with a word   *)
(* of matrices multiplied onto each virtual leg (read from the core        *)
(* outwards).  The letters of a word are                                   *)
(*   Lam(b), LamInv(b)  the Schmidt spectrum of bond b and its inverse,    *)
(*   G(b), GInv(b)      a unit-norm spectrum of bond b that is not the     *)
(*                      Schmidt spectrum, and its inverse,                 *)
(*   W(b)               an unknown unitary on bond b,                      *)
(*   O(b)               an unknown invertible, non-unitary matrix.         *)
(* "nrm" says whether the tensor is exactly that product ("exact") or the  *)
(* product rescaled to Frobenius norm 1 ("unit"); "byc" marks a factor of  *)
(* an SVD, which is an isometry by construction.                           *)
(***************************************************************************)
EXTENDS Integers, Sequences, FiniteSets, TLC

VARIABLES N, triv, expl, m, pre, ret, prev, calls, ctor, ecall, dmrg, dcall,
          lookup, shaped

vars == <<N, triv, expl, m, pre, ret, prev, calls, ctor, ecall, dmrg, dcall,
          lookup, shaped>>

\* What the caller of CanonicalMPS never touches: the last constructor call
\* on raw arrays, the last call on the ExplicitMPS, the DMRG instance and
\* the last call on it.
others == <<ctor, ecall, dmrg, dcall, lookup, shaped>>

\* Largest chain length explored.
MaxN == 5

\* The caller makes at most MaxCalls method calls after a conversion.
MaxCalls == 2

\* Longest list of raw arrays handed to the ExplicitMPS constructor.
MaxSites == 2

\* Largest virtual dimension of the MPO at its boundary.
MaxD == 2

\* Largest num_iter handed to DMRG.run.
MaxIter == 2

\* Longest chain and largest bond dimension where the shapes of the tensors
\* are followed; PhysDim is the size of every physical leg.
MaxChain == 4
MaxBond == 2
PhysDim == 2

\* Python's None for orth_centre (site indices are 0..N-1).
None == -1

---------------------------------------------------------------------------
\* Words and letters

Letter(kind, b) == [k |-> kind, b |-> b]

Inverse(tok) ==
    [tok EXCEPT !.k = CASE tok.k = "Lam" -> "LamInv"
                        [] tok.k = "LamInv" -> "Lam"
                        [] tok.k = "G" -> "GInv"
                        [] tok.k = "GInv" -> "G"
                        [] OTHER -> tok.k]

\* Bonds of dimension 1: the two ghost bonds and the unentangled cuts.
Trivial(b) == b <= 0 \/ b >= N \/ b \in triv

\* Multiplying a diagonal matrix onto the outer end of a leg.  A spectrum of
\* a bond of dimension 1 is [1.0]: the identity.
Push(w, tok) ==
    IF Trivial(tok.b) THEN w
    ELSE IF w # <<>> /\ w[Len(w)] = Inverse(tok) THEN SubSeq(w, 1, Len(w) - 1)
    ELSE Append(w, tok)

\* The leg carries the Schmidt spectrum of its bond (up to a unitary).
AbsorbsLam(w, b) ==
    \/ Trivial(b)
    \/ w = <<Letter("Lam", b)>>
    \/ w = <<Letter("Lam", b), Letter("W", b)>>

\* The leg carries nothing (up to a unitary).
Bare(w, b) ==
    \/ Trivial(b)
    \/ w = <<>>
    \/ w = <<Letter("W", b)>>

SweepWord(w, b) == AbsorbsLam(w, b) \/ Bare(w, b) \/ w = <<Letter("O", b)>>

---------------------------------------------------------------------------
\* Site tensors with legs (vL, p, vR)

Tensor(site, lb, rb, lw, rw, nrm, byc, cj) ==
    [site |-> site, lb |-> lb, rb |-> rb, lw |-> lw, rw |-> rw,
     nrm |-> nrm, byc |-> byc, cj |-> cj]

\* np.transpose of a rank-3 array reverses its axes: (vL, p, vR) -> (vR, p, vL).
Transpose(t) ==
    Tensor(t.site, t.rb, t.lb, t.rw, t.lw, t.nrm,
           CASE t.byc = "L" -> "R" [] t.byc = "R" -> "L" [] OTHER -> "", t.cj)

\* np.conjugate of a tensor.
Conj(t) == [t EXCEPT !.cj = ~t.cj]

LPat(t) == AbsorbsLam(t.lw, t.lb) /\ Bare(t.rw, t.rb)
RPat(t) == Bare(t.lw, t.lb) /\ AbsorbsLam(t.rw, t.rb)
CPat(t) == AbsorbsLam(t.lw, t.lb) /\ AbsorbsLam(t.rw, t.rb)

\* Frobenius norm 1.
Norm1(t) ==
    \/ t.byc = "L" /\ Trivial(t.rb)
    \/ t.byc = "R" /\ Trivial(t.lb)
    \/ IF t.nrm = "unit"
       THEN SweepWord(t.lw, t.lb) /\ SweepWord(t.rw, t.rb)
       ELSE CPat(t)

\* A unit-norm tensor whose exact product has norm 1 anyway is exact.
Canon(t) == IF t.nrm = "unit" /\ CPat(t) THEN [t EXCEPT !.nrm = "exact"] ELSE t

\* tensordot(diag(s), t, (1, 0)) and tensordot(t, diag(s), (2, 0)) for a
\* letter s.  The product of an isometry with a diagonal matrix is no longer
\* an isometry by construction.
DiagDotLeft(tok, t) == [t EXCEPT !.lw = Push(t.lw, tok), !.byc = ""]
DiagDotRight(t, tok) == [t EXCEPT !.rw = Push(t.rw, tok), !.byc = ""]

\* The contraction over (vL, p) is the identity on vR, within tolerance.
IsLeftIso(t) ==
    IF Trivial(t.rb) THEN Norm1(t)
    ELSE t.nrm = "exact" /\ (LPat(t) \/ t.byc = "L")

\* The contraction over (p, vR) is the identity on vL, within tolerance.
IsRightIso(t) ==
    IF Trivial(t.lb) THEN Norm1(t)
    ELSE t.nrm = "exact" /\ (RPat(t) \/ t.byc = "R")

---------------------------------------------------------------------------
\* Singular-value vectors

\* The literal np.array([1.0]).
One == [k |-> "One", b |-> 0]

\* The spectrum of bond b: the Schmidt spectrum, or some other unit vector.
Spectrum(kind, b) == [k |-> kind, b |-> b]

\* np.diag of a singular-value vector, as a letter.
Diag(s) == Letter(IF s.k = "Garbage" THEN "G" ELSE "Lam", s.b)

\* np.linalg.inv(np.diag(s)).
InvDiag(s) == Inverse(Diag(s))

\* The norm of every singular-value vector of the model is 1.
UnitNorm(s) == s.k \in {"One", "Schmidt", "Garbage"}

---------------------------------------------------------------------------
\* Python lists are indexed from 0, sequences from 1.

At(seq, i) == seq[i + 1]

Range(a, b) == a .. (b - 1)

\* Faulty variant of Reversed: the list is left in sweep order (C9).
Unreversed(seq) == seq

RECURSIVE Reversed(_)
Reversed(seq) ==
    IF seq = <<>> THEN <<>>
    ELSE Append(Reversed(Tail(seq)), Head(seq))

Raised(err) == [raise |-> err]

---------------------------------------------------------------------------
\* ExplicitMPS

ExplicitMPS(tensors, singular_values) ==
    IF Len(tensors) # Len(singular_values) - 1 THEN Raised("ValueError")
    ELSE IF \E i \in 1..Len(singular_values) : ~UnitNorm(singular_values[i])
    THEN Raised("ValueError")
    ELSE [tensors |-> tensors, singular_values |-> singular_values]

NoExplicit == [tensors |-> <<>>, singular_values |-> <<>>]

\* The default tolerance, as the unit in which the model measures how far
\* the norm of a singular-value vector is from 1.
tolerance == 1

\* Faulty variant of ExplicitMPS_init: a norm that deviates from 1 by
\* exactly the tolerance is rejected (C11).
ExplicitMPS_init_Inclusive(ranks, devs) ==
    IF \E i \in 1..(Len(ranks) - 1) : ranks[i] < 3 THEN Raised("IndexError")
    ELSE IF \E i \in 1..Len(ranks) : ranks[i] < 2 THEN Raised("IndexError")
    ELSE IF ranks = <<>> THEN Raised("IndexError")
    ELSE IF Len(ranks) # Len(devs) - 1 THEN Raised("ValueError")
    ELSE IF \E i \in 1..Len(ranks) : ranks[i] # 3 THEN Raised("ValueError")
    ELSE IF \E i \in 1..Len(devs) : devs[i] >= tolerance
    THEN Raised("ValueError")
    ELSE [ranks |-> ranks, devs |-> devs]

\* ExplicitMPS.__init__ on raw arrays: ranks[i] is len(tensors[i].shape) and
\* devs[i] is abs(norm(singular_values[i]) - 1).  The attribute assignments
\* come before the checks: tensors[i].shape[2] for i in range(num_bonds),
\* tensors[i].shape[1] for every i, then tensors[0].dtype.
ExplicitMPS_init(ranks, devs) ==
    IF \E i \in 1..(Len(ranks) - 1) : ranks[i] < 3 THEN Raised("IndexError")
    ELSE IF \E i \in 1..Len(ranks) : ranks[i] < 2 THEN Raised("IndexError")
    ELSE IF ranks = <<>> THEN Raised("IndexError")
    ELSE IF Len(ranks) # Len(devs) - 1 THEN Raised("ValueError")
    ELSE IF \E i \in 1..Len(ranks) : ranks[i] # 3 THEN Raised("ValueError")
    ELSE IF \E i \in 1..Len(devs) : devs[i] > tolerance
    THEN Raised("ValueError")
    ELSE [ranks |-> ranks, devs |-> devs]

\* The Vidal form of the physical state on n sites.
VidalForm(n) ==
    ExplicitMPS(
        [i \in 1..n |-> Tensor(i - 1, i - 1, i, <<>>, <<>>, "exact", "", FALSE)],
        [b \in 1..(n + 1) |->
            IF b = 1 \/ b = n + 1 THEN One ELSE Spectrum("Schmidt", b - 1)])

num_sites(mps) == Len(mps.tensors)

\* Faulty variant of single_site_left_iso: the singular values of the
\* bond to the right of the site are absorbed on its left leg (C5).
single_site_left_iso_NextBond(e, site) ==
    IF site \notin 0 .. (Len(e.tensors) - 1) THEN [raise |-> "ValueError"]
    ELSE [e.tensors[site + 1] EXCEPT
            !.lw = Push(@, Diag(e.singular_values[site + 2])), !.byc = ""]

\* Faulty variant of single_site_right_iso: the singular values of the
\* bond to the left of the site are absorbed on its right leg (C4).
single_site_right_iso_ThisBond(e, site) ==
    IF site \notin 0 .. (Len(e.tensors) - 1) THEN [raise |-> "ValueError"]
    ELSE [e.tensors[site + 1] EXCEPT
            !.rw = Push(@, Diag(e.singular_values[site + 1])), !.byc = ""]

\* Faulty variant of explicit_reverse: the sites are reversed and transposed
\* but the singular values keep their order (C13).
explicit_reverse_SitesOnly(e) ==
    ExplicitMPS([i \in 1..num_sites(e) |->
                    Transpose(e.tensors[num_sites(e) + 1 - i])],
                e.singular_values)

\* ExplicitMPS.reverse
explicit_reverse(e) ==
    ExplicitMPS([i \in 1..num_sites(e) |->
                    Transpose(e.tensors[num_sites(e) + 1 - i])],
                Reversed(e.singular_values))

single_site_left_iso(e, site) ==
    IF site \notin Range(0, num_sites(e)) THEN Raised("ValueError")
    ELSE DiagDotLeft(Diag(At(e.singular_values, site)), At(e.tensors, site))

single_site_right_iso(e, site) ==
    IF site \notin Range(0, num_sites(e)) THEN Raised("ValueError")
    ELSE DiagDotRight(At(e.tensors, site), Diag(At(e.singular_values, site + 1)))

\* tensordot of two isometries over the bond they share; an error raised
\* while an operand is computed propagates.
IsoDot(a, b) ==
    IF a = Raised("ValueError") THEN a
    ELSE IF b = Raised("ValueError") THEN b
    ELSE [a |-> a, b |-> b]

two_site_left_iso(e, site) ==
    IF site \notin Range(0, num_sites(e)) THEN Raised("ValueError")
    ELSE IsoDot(single_site_left_iso(e, site),
                single_site_left_iso(e, site + 1))

two_site_right_iso(e, site) ==
    IF site \notin Range(0, num_sites(e)) THEN Raised("ValueError")
    ELSE IsoDot(single_site_right_iso(e, site),
                single_site_right_iso(e, site + 1))

\* The generators: item i is computed when the consumer asks for it.
two_site_right_iso_iter(e) ==
    [k \in 1..num_sites(e) |-> two_site_right_iso(e, k - 1)]

two_site_left_iso_iter(e) ==
    [k \in 1..num_sites(e) |-> two_site_left_iso(e, k - 1)]

\* A consumer running a generator to its end: the items yielded before the
\* first item whose computation raises, and that error ("" when the
\* generator is exhausted).
Exhausted(items) ==
    LET failing == {k \in 1..Len(items) : items[k] = Raised("ValueError")}
    IN  IF failing = {} THEN [yielded |-> items, err |-> ""]
        ELSE [yielded |->
                SubSeq(items, 1,
                       (CHOOSE k \in failing : \A j \in failing : k <= j) - 1),
              err |-> "ValueError"]

---------------------------------------------------------------------------
\* CanonicalMPS

CanonicalMPS(tensors, orth_centre) ==
    IF orth_centre # None /\ orth_centre # 0
       /\ orth_centre \notin Range(0, Len(tensors))
    THEN Raised("ValueError")
    ELSE [tensors |-> tensors, orth_centre |-> orth_centre]

NoMPS == [tensors |-> <<>>, orth_centre |-> None]

\* CanonicalMPS.__init__ on raw arrays: ranks[i] is len(tensors[i].shape).
\* The attribute assignments come before the checks: tensors[i].shape[2]
\* for i in range(num_bonds), tensors[i].shape[1] for every i, then
\* tensors[0].dtype; the check of orth_centre precedes that of the ranks.
CanonicalMPS_init(ranks, orth_centre) ==
    IF \E i \in 1..(Len(ranks) - 1) : ranks[i] < 3 THEN Raised("IndexError")
    ELSE IF \E i \in 1..Len(ranks) : ranks[i] < 2 THEN Raised("IndexError")
    ELSE IF ranks = <<>> THEN Raised("IndexError")
    ELSE IF orth_centre # None /\ orth_centre # 0
            /\ orth_centre \notin Range(0, Len(ranks))
    THEN Raised("ValueError")
    ELSE IF \E i \in 1..Len(ranks) : ranks[i] # 3 THEN Raised("ValueError")
    ELSE [ranks |-> ranks, orth_centre |-> orth_centre]

copy(self) == CanonicalMPS(self.tensors, self.orth_centre)

reverse(self) ==
    LET reversed_tensors ==
            [i \in 1..num_sites(self) |->
                Transpose(self.tensors[num_sites(self) + 1 - i])]
    IN  IF self.orth_centre # None /\ self.orth_centre # 0
        THEN CanonicalMPS(reversed_tensors,
                          (num_sites(self) - 1) - self.orth_centre)
        ELSE CanonicalMPS(reversed_tensors, None)

conjugate(self) ==
    CanonicalMPS([i \in 1..num_sites(self) |-> Conj(self.tensors[i])],
                 self.orth_centre)

\* tensordot of two neighbouring site tensors over their shared bond.
two_site_tensor_next(self, site) ==
    IF site \notin Range(0, num_sites(self) - 1) THEN Raised("ValueError")
    ELSE [a |-> At(self.tensors, site), b |-> At(self.tensors, site + 1)]

---------------------------------------------------------------------------
\* ExplicitMPS -> CanonicalMPS

right_canonical(e) ==
    CanonicalMPS([i \in 1..num_sites(e) |-> single_site_right_iso(e, i - 1)],
                 None)

left_canonical(e) ==
    CanonicalMPS([i \in 1..num_sites(e) |-> single_site_left_iso(e, i - 1)],
                 None)

\* Faulty variant of mixed_canonical: only an index past the last site is
\* rejected and a negative one counts from the end of the list (C12).
mixed_canonical_Wrapping(e, orth_centre) ==
    IF orth_centre >= num_sites(e) THEN Raised("ValueError")
    ELSE CanonicalMPS(
            [i \in 1..num_sites(e) |->
                IF i - 1 < orth_centre % num_sites(e)
                THEN single_site_left_iso(e, i - 1)
                ELSE IF i - 1 > orth_centre % num_sites(e)
                THEN single_site_right_iso(e, i - 1)
                ELSE DiagDotRight(
                        DiagDotLeft(
                            Diag(At(e.singular_values, orth_centre % num_sites(e))),
                            At(e.tensors, orth_centre % num_sites(e))),
                        Diag(At(e.singular_values,
                                (orth_centre % num_sites(e)) + 1)))],
            orth_centre % num_sites(e))

mixed_canonical(e, orth_centre) ==
    IF orth_centre \notin Range(0, num_sites(e)) THEN Raised("ValueError")
    ELSE CanonicalMPS(
            [i \in 1..num_sites(e) |->
                IF i - 1 < orth_centre THEN single_site_left_iso(e, i - 1)
                ELSE IF i - 1 > orth_centre THEN single_site_right_iso(e, i - 1)
                ELSE DiagDotRight(
                        DiagDotLeft(Diag(At(e.singular_values, orth_centre)),
                                    At(e.tensors, orth_centre)),
                        Diag(At(e.singular_values, orth_centre + 1)))],
            orth_centre)

---------------------------------------------------------------------------
\* Truncated SVD of a two-site tensor (mpopt.utils.split_two_site_tensor)

\* The letters met on the shared bond multiply to its Schmidt spectrum.
MidLam(rw, lw, mb) ==
    \/ rw = <<>> /\ lw = <<Letter("Lam", mb)>>
    \/ rw = <<Letter("Lam", mb)>> /\ lw = <<>>
    \/ rw = <<Letter("W", mb)>> /\ lw = <<Letter("Lam", mb), Letter("W", mb)>>
    \/ rw = <<Letter("Lam", mb), Letter("W", mb)>> /\ lw = <<Letter("W", mb)>>
    \/ rw = <<Letter("O", mb)>> /\ lw = <<Letter("O", mb)>>

\* theta = u . diag(s) . v with u a left isometry, v a right isometry and s
\* of unit norm (renormalise=True).  s is the Schmidt spectrum of the bond
\* exactly when theta is (left isometry) . Lambda . (right isometry), that
\* is when the outer leg of the left site carries the spectrum of its bond
\* and so does the outer leg of the right site.  Otherwise, as long as the
\* left site's outer leg carries its spectrum, u is the left isometry of
\* the site rotated by a unitary; else it is an isometry only by
\* construction.  No value is dropped: chi_max = 1e4 and the bonds of the
\* state have their minimal dimension.
split_two_site_tensor(theta) ==
    LET t1 == theta.a
        t2 == theta.b
        mb == t1.rb
        lt == AbsorbsLam(t1.lw, t1.lb)
        rt == AbsorbsLam(t2.rw, t2.rb)
        mid == MidLam(t1.rw, t2.lw, mb)
        s == IF Trivial(mb) \/ (lt /\ rt /\ mid)
             THEN Spectrum("Schmidt", mb) ELSE Spectrum("Garbage", mb)
        u == IF Trivial(mb)
             THEN [t1 EXCEPT !.nrm = IF AbsorbsLam(t1.lw, t1.lb)
                                     THEN "exact" ELSE "unit",
                             !.byc = "L"]
             ELSE IF lt /\ mid
             THEN [t1 EXCEPT !.rw = IF rt THEN <<>> ELSE <<Letter("W", mb)>>,
                             !.nrm = "exact", !.byc = ""]
             ELSE [t1 EXCEPT !.rw = <<Letter("O", mb)>>,
                             !.nrm = "exact", !.byc = "L"]
        \* diag(s) . v, the new right site
        sv == IF Trivial(mb) THEN Canon([t2 EXCEPT !.nrm = "unit", !.byc = ""])
              ELSE IF lt /\ mid
              THEN IF rt
                   THEN [t2 EXCEPT !.lw = <<Letter("Lam", mb)>>,
                                   !.nrm = "exact", !.byc = ""]
                   ELSE [t2 EXCEPT !.lw = <<Letter("Lam", mb), Letter("W", mb)>>,
                                   !.nrm = "unit", !.byc = ""]
              ELSE [t2 EXCEPT !.lw = <<Letter("O", mb)>>,
                              !.nrm = "unit", !.byc = ""]
    IN  [u |-> u, s |-> s,
         v |-> [sv EXCEPT !.lw = Push(sv.lw, InvDiag(s)), !.byc = "R"]]

---------------------------------------------------------------------------
\* Centre discovery (mpopt.mps.utils.find_orth_centre, return_orth_flags)

flags_left(tensors) == [i \in 1..Len(tensors) |-> IsLeftIso(tensors[i])]

flags_right(tensors) == [i \in 1..Len(tensors) |-> IsRightIso(tensors[i])]

Not(flags) == [i \in 1..Len(flags) |-> ~flags[i]]

Rep(flag, n) == [i \in 1..n |-> flag]

\* [True] + [False] * (n - 1), [False] * n
FirstPattern(fl, n) ==
    \/ fl = <<TRUE>> \o Rep(FALSE, n - 1)
    \/ fl = Rep(FALSE, n)

\* [True] * (n - 1) + [False], [True] * n
LastPattern(fl, n) ==
    \/ fl = Rep(TRUE, n - 1) \o <<FALSE>>
    \/ fl = Rep(TRUE, n)

\* The sites that are neither left- nor right-isometric, then the border
\* special cases.
Centres(fl, fr, n) ==
    SelectSeq([i \in 1..n |-> i - 1], LAMBDA i : ~fl[i + 1] /\ ~fr[i + 1])
    \o (IF FirstPattern(fl, n) /\ fr = Not(fl) THEN <<0>> ELSE <<>>)
    \o (IF LastPattern(fl, n) /\ fr = Not(fl) THEN <<n - 1>> ELSE <<>>)
    \o (IF fl = Rep(TRUE, n) /\ fr = Rep(TRUE, n) THEN <<0>> ELSE <<>>)

find_orth_centre(tensors) ==
    Centres(flags_left(tensors), flags_right(tensors), Len(tensors))

\* The three ifs of move_orth_centre's fallback, the last assignment
\* winning; c is self.orth_centre before them.
ResolveCentre(fl, fr, n, c) ==
    IF fl = Rep(TRUE, n) /\ fr = Rep(TRUE, n) THEN 0
    ELSE IF LastPattern(fl, n) /\ fr = Not(fl) THEN n - 1
    ELSE IF FirstPattern(fl, n) /\ fr = Not(fl) THEN 0
    ELSE c

\* The fallback of move_orth_centre: self.orth_centre after the three ifs.
DiscoverCentre(self) ==
    ResolveCentre(flags_left(self.tensors), flags_right(self.tensors),
                  num_sites(self), self.orth_centre)

\* The three ifs of move_orth_centre_to_border's fallback, the first
\* return winning; "unbound" when control falls through to
\* `return mps, "last"`.
ResolveBorder(fl, fr, n) ==
    IF FirstPattern(fl, n) /\ fr = Not(fl) THEN "first"
    ELSE IF LastPattern(fl, n) /\ fr = Not(fl) THEN "last"
    ELSE IF (\A i \in 1..n : fl[i]) /\ (\A i \in 1..n : fr[i]) THEN "first"
    ELSE "unbound"

DiscoverBorder(self) ==
    ResolveBorder(flags_left(self.tensors), flags_right(self.tensors),
                  num_sites(self))

---------------------------------------------------------------------------
\* What a call leaves behind: the receiver after the call ("self"), and
\* either the exception raised or the value returned.  "same" says that the
\* instance returned is the receiver itself; "swept" counts the SVD splits.

Outcome(self, tag, err, kind, mps, same, sv, border, swept, ex) ==
    [self |-> self, tag |-> tag, err |-> err, kind |-> kind, mps |-> mps,
     same |-> same, sv |-> sv, border |-> border, swept |-> swept, ex |-> ex]

Raise(self, err) ==
    Outcome(self, "raise", err, "", NoMPS, FALSE, <<>>, "", 0, NoExplicit)

\* The loop of move_orth_centre over range(i, final): SweepStep is its
\* body, given the split of the two-site tensor at i.
RECURSIVE SweepLoop(_, _, _, _)
RECURSIVE SweepStep(_, _, _, _, _)
SweepLoop(mps, singular_values, i, final) ==
    IF i >= final THEN [mps |-> mps, singular_values |-> singular_values]
    ELSE SweepStep(mps, singular_values, i, final,
                   split_two_site_tensor(two_site_tensor_next(mps, i)))

SweepStep(mps, singular_values, i, final, split) ==
    SweepLoop([mps EXCEPT !.tensors[i + 1] = split.u,
                          !.tensors[i + 2] = DiagDotLeft(Diag(split.s), split.v)],
              Append(singular_values, split.s), i + 1, final)

\* move_orth_centre from `if self.orth_centre < final_pos` on, for the
\* sweep `done` of the copy (or of the reversed copy, when backward).
Swept(self, done, backward, return_singular_values) ==
    Outcome(self, "value", "",
            IF return_singular_values THEN "pair" ELSE "mps",
            IF backward THEN reverse(done.mps) ELSE done.mps,
            FALSE,
            IF ~return_singular_values THEN <<>>
            ELSE IF backward THEN Reversed(done.singular_values)
            ELSE done.singular_values,
            "", Len(done.singular_values), NoExplicit)

\* begin is the orth_centre of the chain swept: self.copy() forward,
\* self.reverse() backward.
SweepFrom(start, final) == SweepLoop(start, <<>>, start.orth_centre, final)

\* move_orth_centre once self.orth_centre has been looked up.
MoveFrom(self, final_pos, return_singular_values) ==
    IF self.orth_centre = None THEN Raise(self, "TypeError")
    ELSE IF self.orth_centre < final_pos
    THEN Swept(self, SweepFrom(copy(self), final_pos),
               FALSE, return_singular_values)
    ELSE IF self.orth_centre > final_pos
    THEN Swept(self, SweepFrom(reverse(self), (num_sites(self) - 1) - final_pos),
               TRUE, return_singular_values)
    ELSE Outcome(self, "value", "", "mps", self, TRUE, <<>>, "", 0, NoExplicit)

\* Faulty variant of move_orth_centre: the centre is looked up before
\* final_pos is checked against the range of sites (C25).
move_orth_centre_DiscoversFirst(self, final_pos, return_singular_values) ==
    IF self.orth_centre = None
    THEN IF final_pos \notin Range(0, num_sites(self))
         THEN Raise([self EXCEPT !.orth_centre = DiscoverCentre(self)],
                    "ValueError")
         ELSE MoveFrom([self EXCEPT !.orth_centre = DiscoverCentre(self)],
                       final_pos, return_singular_values)
    ELSE IF final_pos \notin Range(0, num_sites(self))
    THEN Raise(self, "ValueError")
    ELSE MoveFrom(self, final_pos, return_singular_values)

move_orth_centre(self, final_pos, return_singular_values) ==
    IF final_pos \notin Range(0, num_sites(self)) THEN Raise(self, "ValueError")
    ELSE IF self.orth_centre = None
    THEN MoveFrom([self EXCEPT !.orth_centre = DiscoverCentre(self)],
                  final_pos, return_singular_values)
    ELSE MoveFrom(self, final_pos, return_singular_values)

\* `return mps, border` of move_orth_centre_to_border.
Bordered(moved, border) ==
    IF moved.tag = "raise" THEN moved
    ELSE [moved EXCEPT !.kind = "border", !.border = border]

\* Faulty variant of move_orth_centre_to_border: a centre at
\* int(num_bonds / 2) is sent to the last site (C8).
move_orth_centre_to_border_Strict(self) ==
    IF self.orth_centre = None
    THEN IF DiscoverBorder(self) = "unbound"
         THEN Raise(self, "UnboundLocalError")
         ELSE Outcome(self, "value", "", "border", copy(self), FALSE,
                      <<>>, DiscoverBorder(self), 0, NoExplicit)
    ELSE IF self.orth_centre < (num_sites(self) - 1) \div 2
    THEN Bordered(move_orth_centre(self, 0, FALSE), "first")
    ELSE Bordered(move_orth_centre(self, num_sites(self) - 1, FALSE), "last")

move_orth_centre_to_border(self) ==
    IF self.orth_centre = None
    THEN IF DiscoverBorder(self) = "unbound"
         THEN Raise(self, "UnboundLocalError")
         ELSE Outcome(self, "value", "", "border", copy(self), FALSE,
                      <<>>, DiscoverBorder(self), 0, NoExplicit)
    ELSE IF self.orth_centre <= (num_sites(self) - 1) \div 2
    THEN Bordered(move_orth_centre(self, 0, FALSE), "first")
    ELSE Bordered(move_orth_centre(self, num_sites(self) - 1, FALSE), "last")

\* `return ExplicitMPS(explicit_tensors, singular_values)`.
Made(to_border, moved, singular_values, made) ==
    IF made = Raised("ValueError") THEN Raise(moved.self, "ValueError")
    ELSE Outcome(moved.self, "value", "", "explicit", moved.mps, FALSE,
                 singular_values, to_border.border,
                 to_border.swept + moved.swept, made)

\* explicit() from `singular_values.insert(0, ...)` on: each tensor of the
\* chain swept is multiplied on its right leg by the inverse of
\* singular_values[i + 1].
Reconstructed(to_border, moved, singular_values) ==
    Made(to_border, moved, singular_values,
         ExplicitMPS(
            [i \in 1..num_sites(moved.mps) |->
                DiagDotRight(moved.mps.tensors[i],
                             InvDiag(At(singular_values, i)))],
            singular_values))

\* `mps_canonical, singular_values = self.move_orth_centre(...)`: a single
\* instance cannot be unpacked into two values.
Unpacked(to_border, moved) ==
    IF moved.tag = "raise" THEN moved
    ELSE IF moved.kind # "pair" THEN Raise(moved.self, "TypeError")
    ELSE Reconstructed(to_border, moved, <<One>> \o moved.sv \o <<One>>)

\* `self.orth_centre = 0` and `self.orth_centre = self.num_sites - 1` of
\* explicit().
Relabelled(self, border) ==
    [self EXCEPT !.orth_centre =
        IF border = "first" THEN 0 ELSE num_sites(self) - 1]

\* explicit() after move_orth_centre_to_border.  The chain that call
\* returned is dropped: the sweep to the far border runs on self, whose
\* orth_centre is overwritten with the border's index.
FromBorder(to_border) ==
    IF to_border.tag = "raise" THEN to_border
    ELSE IF to_border.border = "first"
    THEN Unpacked(to_border,
                  move_orth_centre(Relabelled(to_border.self, "first"),
                                   num_sites(to_border.self) - 1, TRUE))
    ELSE Unpacked(to_border,
                  move_orth_centre(Relabelled(to_border.self, "last"),
                                   0, TRUE))

explicit(self) == FromBorder(move_orth_centre_to_border(self))

\* -sum(xlogx(s * s)) of a unit vector s: 0 for a vector of one entry, the
\* entropy of the spectrum otherwise.
Entropy(s) ==
    IF s.k = "One" \/ Trivial(s.b) THEN [k |-> "Zero", b |-> 0]
    ELSE [k |-> "EntropyOf" \o s.k, b |-> s.b]

\* ExplicitMPS.entanglement_entropy: one entry per bond in
\* range(num_bonds), the entropy of singular_values[bond].
explicit_entanglement_entropy(e) ==
    [bond \in 1..(num_sites(e) - 1) |->
        Entropy(At(e.singular_values, bond - 1))]

EntropyOf(made) ==
    IF made.tag = "raise" THEN made
    ELSE [made EXCEPT !.kind = "entropy",
                      !.sv = explicit_entanglement_entropy(made.ex)]

entanglement_entropy(self) == EntropyOf(explicit(self))

---------------------------------------------------------------------------
\* DMRG (mpopt.optimizer.dmrg)

\* The names an ExplicitMPS instance answers to: the attributes __init__
\* sets and the methods of the class.
ExplicitMPSAttributes ==
    {"tensors", "num_sites", "num_bonds", "bond_dimensions",
     "phys_dimensions", "singular_values", "num_singval_mat", "dtype",
     "tolerance", "chi_max", "copy", "reverse", "conjugate",
     "single_site_left_iso", "single_site_right_iso",
     "single_site_left_iso_iter", "single_site_right_iso_iter",
     "two_site_left_iso", "two_site_right_iso", "two_site_right_iso_iter",
     "two_site_left_iso_iter", "dense", "density_mpo",
     "entanglement_entropy", "right_canonical", "left_canonical",
     "mixed_canonical"}

\* self.mps.<name> raises AttributeError unless the instance has the name.
HasAttr(name) == name \in ExplicitMPSAttributes

NoDMRG ==
    [mps |-> NoExplicit, mpo |-> [len |-> 0, D |-> 0], chi_max |-> "",
     cut |-> "", mode |-> "", left_environments |-> <<>>,
     right_environments |-> <<>>]

\* An MPO of len tensors whose first tensor has D = mpo[0].shape[0].
MPO(len, D) == [len |-> len, D |-> D]

\* An entry of [None] * len(mps).
NoEnv == [array |-> "None", one |-> None, sites |-> <<>>]

\* np.zeros([chi, D, chi]) with np.eye(chi) written at [:, one, :]; array
\* is the local variable that holds it.
Boundary(array, one) == [array |-> array, one |-> one, sites |-> <<>>]

\* The contraction of an environment with a site isometry, the MPO tensor
\* of the site and the conjugate isometry.
Contracted(env, iso) == [env EXCEPT !.sites = Append(@, iso)]

update_right_environment(self, i) ==
    [self EXCEPT !.right_environments[i] =
        Contracted(At(self.right_environments, i),
                   single_site_right_iso(self.mps, i))]

update_left_environment(self, i) ==
    [self EXCEPT !.left_environments[i + 2] =
        Contracted(At(self.left_environments, i),
                   single_site_left_iso(self.mps, i))]

\* for i in reversed(range(1, len(mps))): self.update_right_environment(i)
RECURSIVE RightPass(_, _)
RightPass(self, i) ==
    IF i < 1 THEN self
    ELSE RightPass(update_right_environment(self, i), i - 1)

\* Faulty variant of DMRG_init: only an MPO shorter than the MPS is
\* rejected (C19).
DMRG_init_Shorter(mps, mpo, chi_max, cut, mode) ==
    IF num_sites(mps) > mpo.len THEN Raised("ValueError")
    ELSE IF mpo.len = 0 THEN Raised("IndexError")
    ELSE RightPass(
            [mps |-> mps, mpo |-> mpo, chi_max |-> chi_max, cut |-> cut,
             mode |-> mode,
             left_environments |->
                [i \in 1..num_sites(mps) |->
                    IF i = 1 THEN Boundary("right_environment", mpo.D - 1)
                    ELSE NoEnv],
             right_environments |->
                [i \in 1..num_sites(mps) |->
                    IF i = num_sites(mps)
                    THEN Boundary("right_environment", mpo.D - 1)
                    ELSE NoEnv]],
            num_sites(mps) - 1)

\* DMRG.__init__: both left_environments[0] and right_environments[-1] are
\* assigned the array right_environment.
DMRG_init(mps, mpo, chi_max, cut, mode) ==
    IF num_sites(mps) # mpo.len THEN Raised("ValueError")
    ELSE IF mpo.len = 0 THEN Raised("IndexError")
    ELSE RightPass(
            [mps |-> mps, mpo |-> mpo, chi_max |-> chi_max, cut |-> cut,
             mode |-> mode,
             left_environments |->
                [i \in 1..num_sites(mps) |->
                    IF i = 1 THEN Boundary("right_environment", mpo.D - 1)
                    ELSE NoEnv],
             right_environments |->
                [i \in 1..num_sites(mps) |->
                    IF i = num_sites(mps)
                    THEN Boundary("right_environment", mpo.D - 1)
                    ELSE NoEnv]],
            num_sites(mps) - 1)

\* What a call on the DMRG instance leaves behind: the instance after the
\* call, the exception raised if any, and the bonds update_bond was called
\* on, in call order.
DOutcome(self, tag, err, updates) ==
    [self |-> self, tag |-> tag, err |-> err, updates |-> updates]

DRaise(self, err, updates) == DOutcome(self, "raise", err, updates)

DValue(self, updates) == DOutcome(self, "value", "", updates)

\* The eigenvector of the effective Hamiltonian of sites i and i + 1,
\* reshaped to a two-site tensor: it lives in the bases of the two
\* environments, so the singular values of the outer bonds are absorbed.
GroundState(self, i) ==
    [a |-> single_site_left_iso(self.mps, i),
     b |-> DiagDotLeft(Diag(At(self.mps.singular_values, i + 1)),
                       single_site_right_iso(self.mps, i + 1))]

\* update_bond from "Put back into MPS" on, given the split of theta.
PutBack(self, i, split) ==
    DValue(
        update_right_environment(
            update_left_environment(
                [self EXCEPT
                    !.mps.tensors[i + 1] =
                        DiagDotLeft(InvDiag(At(self.mps.singular_values, i)),
                                    split.u),
                    !.mps.tensors[i + 2] =
                        DiagDotRight(split.v,
                                     InvDiag(At(self.mps.singular_values, i + 2))),
                    !.mps.singular_values[i + 2] = split.s],
                i),
            i + 1),
        <<i>>)

\* DMRG.update_bond.  The arguments of EffectiveHamiltonian are looked up
\* first, its __init__ reads the shape of both environments, then the
\* initial guess is self.mps.two_site_right_tensor(i) and the old singular
\* values are self.mps.schmidt_values.
update_bond(self, i) ==
    IF i + 1 \notin Range(0, self.mpo.len) THEN DRaise(self, "IndexError", <<i>>)
    ELSE IF At(self.left_environments, i) = NoEnv
            \/ At(self.right_environments, i + 1) = NoEnv
    THEN DRaise(self, "AttributeError", <<i>>)
    ELSE IF ~HasAttr("two_site_right_tensor")
    THEN DRaise(self, "AttributeError", <<i>>)
    ELSE IF ~HasAttr("schmidt_values")
    THEN DRaise(self, "AttributeError", <<i>>)
    ELSE PutBack(self, i, split_two_site_tensor(GroundState(self, i)))

\* `for i in ...: self.update_bond(i)` over a list of bonds, after the
\* calls that led to o.
RECURSIVE UpdateEach(_, _)
UpdateEach(o, bonds) ==
    IF o.tag = "raise" \/ bonds = <<>> THEN o
    ELSE UpdateEach(
            [update_bond(o.self, Head(bonds)) EXCEPT !.updates = o.updates \o @],
            Tail(bonds))

\* range(n)
Upto(n) == [i \in 1..n |-> i - 1]

\* DMRG.sweep: both loops run over range(self.mps.nsites - 1).
sweep(self) ==
    IF ~HasAttr("nsites") THEN DRaise(self, "AttributeError", <<>>)
    ELSE UpdateEach(UpdateEach(DValue(self, <<>>),
                               Upto(num_sites(self.mps) - 1)),
                    Reversed(Upto(num_sites(self.mps) - 1)))

\* DMRG.run: num_iter sweeps, after the calls that led to o.
RECURSIVE run(_, _)
run(o, num_iter) ==
    IF o.tag = "raise" \/ num_iter <= 0 THEN o
    ELSE run([sweep(o.self) EXCEPT !.updates = o.updates \o @], num_iter - 1)

---------------------------------------------------------------------------
\* The caller: one ExplicitMPS (expl), one CanonicalMPS receiver (m), the
\* receiver as it was before the last call (pre), the last call (ret) and a
\* summary of the call whose result the receiver is (prev); calls counts the
\* method calls made since the conversion.

Nothing == Outcome(NoMPS, "none", "", "", NoMPS, FALSE, <<>>, "", 0, NoExplicit)

Called(op, arg, rsv, chained, out) ==
    [op |-> op, arg |-> arg, rsv |-> rsv, chained |-> chained, out |-> out]

NoCall == Called("", None, FALSE, FALSE, Nothing)

Summary(op, arg, centre, marked, fresh) ==
    [op |-> op, arg |-> arg, centre |-> centre, marked |-> marked,
     fresh |-> fresh]

NoSummary == Summary("", None, None, FALSE, FALSE)

\* The sites below orth_centre are left isometries, those above it right
\* isometries.
CentreAt(tensors, c) ==
    /\ c \in Range(0, Len(tensors))
    /\ \A i \in Range(0, Len(tensors)) :
        /\ i < c => IsLeftIso(At(tensors, i))
        /\ i > c => IsRightIso(At(tensors, i))

Marked(mps) == CentreAt(mps.tensors, mps.orth_centre)

---------------------------------------------------------------------------
\* CanonicalMPS, the shapes of its tensors and the dimensions it records

Shape(vL, p, vR) == [vL |-> vL, p |-> p, vR |-> vR]

\* CanonicalMPS.__init__ seen through tensors[i].shape: bond_dimensions and
\* phys_dimensions are read off the tensors once, here.  The chains
\* considered pass the checks of orth_centre and of the ranks.
CanonicalMPS_shapes(shapes, orth_centre, chi_max) ==
    [shapes |-> shapes,
     bond_dimensions |-> [i \in 1..(Len(shapes) - 1) |-> shapes[i].vR],
     phys_dimensions |-> [i \in 1..Len(shapes) |-> shapes[i].p],
     orth_centre |-> orth_centre,
     chi_max |-> chi_max]

NoShapes == CanonicalMPS_shapes(<<>>, None, 0)

copy_shapes(self) ==
    CanonicalMPS_shapes(self.shapes, self.orth_centre, self.chi_max)

reverse_shapes(self) ==
    CanonicalMPS_shapes(
        [i \in 1..Len(self.shapes) |->
            Shape(self.shapes[Len(self.shapes) + 1 - i].vR,
                  self.shapes[Len(self.shapes) + 1 - i].p,
                  self.shapes[Len(self.shapes) + 1 - i].vL)],
        IF self.orth_centre # None /\ self.orth_centre # 0
        THEN (Len(self.shapes) - 1) - self.orth_centre ELSE None,
        self.chi_max)

Least(S) == CHOOSE x \in S : \A y \in S : x <= y

\* The bond dimension split_two_site_tensor leaves between two sites of
\* shapes a and b: the SVD of the (vL * p) x (p * vR) matrix has
\* min(rows, columns) singular values, of which at most chi_max are kept.
SplitBond(a, b, chi_max) == Least({a.vL * a.p, b.p * b.vR, chi_max})

\* mps.tensors[i] = u_l; mps.tensors[i + 1] = diag(s) . v_r: the entries of
\* the list are replaced, the recorded dimensions are not touched.
Resized(mps, i, bond) ==
    [mps EXCEPT !.shapes[i + 1].vR = bond, !.shapes[i + 2].vL = bond]

\* The loop of move_orth_centre over range(i, final).
RECURSIVE SplitEach(_, _, _)
SplitEach(mps, i, final) ==
    IF i >= final THEN mps
    ELSE SplitEach(Resized(mps, i, SplitBond(At(mps.shapes, i),
                                             At(mps.shapes, i + 1),
                                             mps.chi_max)),
                   i + 1, final)

\* move_orth_centre on a receiver whose orth_centre is set.
move_orth_centre_shapes(self, final_pos) ==
    IF final_pos \notin Range(0, Len(self.shapes)) THEN Raised("ValueError")
    ELSE IF self.orth_centre < final_pos
    THEN SplitEach(copy_shapes(self), self.orth_centre, final_pos)
    ELSE IF self.orth_centre > final_pos
    THEN reverse_shapes(
            SplitEach(reverse_shapes(self), reverse_shapes(self).orth_centre,
                      (Len(self.shapes) - 1) - final_pos))
    ELSE self

ShapedCall(self, op, arg, out) ==
    [self |-> self, op |-> op, arg |-> arg, out |-> out]

NoShaped == ShapedCall(NoShapes, "", None, NoShapes)

---------------------------------------------------------------------------
\* The other callers' variables before their first call.
Constructed(ranks, devs, out) ==
    [op |-> "__init__", ranks |-> ranks, devs |-> devs, out |-> out]

NoCtor == [op |-> "", ranks |-> <<>>, devs |-> <<>>, out |-> Raised("")]

ECalled(op, before, origin, out) ==
    [op |-> op, before |-> before, origin |-> origin, out |-> out]

NoECall == ECalled("", NoExplicit, NoExplicit, NoExplicit)

DCalled(op, arg, before, out) ==
    [op |-> op, arg |-> arg, before |-> before, out |-> out]

NoDCall == DCalled("", None, NoDMRG, DOutcome(NoDMRG, "none", "", <<>>))

\* The flags of a chain without orth_centre, and what each of the two
\* lookups asked so far made of them.
Lookup(fl, fr, asked, centre, border) ==
    [flags_left |-> fl, flags_right |-> fr, asked |-> asked,
     centre |-> centre, border |-> border]

NoLookup == Lookup(<<>>, <<>>, {}, None, "")

Idle ==
    /\ ctor = NoCtor /\ ecall = NoECall /\ dmrg = NoDMRG /\ dcall = NoDCall
    /\ lookup = NoLookup
    /\ shaped = NoShaped

Init ==
    /\ Idle
    /\ N \in 1..MaxN
    /\ triv \in SUBSET (1..(N - 1))
    /\ expl = VidalForm(N)
    /\ m = NoMPS
    /\ pre = NoMPS
    /\ ret = NoCall
    /\ prev = NoSummary
    /\ calls = 0

\* A conversion of the ExplicitMPS hands the caller a new CanonicalMPS.  It
\* replaces all the caller holds, so a conversion after method calls
\* reaches no state that one before them does not: it is taken only
\* before the first call.
Convert(op, arg, made) ==
    /\ calls = 0
    /\ ret' = Called(op, arg, FALSE, FALSE,
                     IF made = Raised("ValueError") THEN Raise(NoMPS, "ValueError")
                     ELSE Outcome(NoMPS, "value", "", "mps", made, FALSE,
                                  <<>>, "", 0, NoExplicit))
    /\ m' = IF made = Raised("ValueError") THEN m ELSE made
    /\ pre' = m'
    /\ prev' = NoSummary
    /\ calls' = IF made = Raised("ValueError") THEN calls ELSE 0
    /\ UNCHANGED <<N, triv, expl>>
    /\ UNCHANGED others

ToRightCanonical == Convert("to_right_canonical", None, right_canonical(expl))

ToLeftCanonical == Convert("to_left_canonical", None, left_canonical(expl))

ToMixedCanonical ==
    \E k \in (0 - 1)..N : Convert("to_mixed_canonical", k, mixed_canonical(expl, k))

\* A method call on the receiver.
Call(op, arg, rsv, out) ==
    /\ m # NoMPS
    /\ calls < MaxCalls
    /\ calls' = calls + 1
    /\ ret' = Called(op, arg, rsv, prev.fresh, out)
    /\ pre' = m
    /\ m' = out.self
    /\ prev' = [prev EXCEPT !.fresh = FALSE]
    /\ UNCHANGED <<N, triv, expl>>
    /\ UNCHANGED others

Returned(self, made) ==
    Outcome(self, "value", "", "mps", made, FALSE, <<>>, "", 0, NoExplicit)

Copy == Call("copy", None, FALSE, Returned(m, copy(m)))

Reverse == Call("reverse", None, FALSE, Returned(m, reverse(m)))

Conjugate == Call("conjugate", None, FALSE, Returned(m, conjugate(m)))

MoveOrthCentre ==
    \E final_pos \in (0 - 1)..N, rsv \in BOOLEAN :
        Call("move_orth_centre", final_pos, rsv,
             move_orth_centre(m, final_pos, rsv))

MoveOrthCentreToBorder ==
    Call("move_orth_centre_to_border", None, FALSE, move_orth_centre_to_border(m))

Explicit == Call("explicit", None, FALSE, explicit(m))

EntanglementEntropy ==
    Call("entanglement_entropy", None, FALSE, entanglement_entropy(m))

RightCanonical ==
    Call("right_canonical", None, FALSE, move_orth_centre(m, 0, FALSE))

LeftCanonical ==
    Call("left_canonical", None, FALSE,
         move_orth_centre(m, num_sites(m) - 1, FALSE))

\* The caller goes on with the CanonicalMPS the last call returned.
Rebind ==
    /\ ret.out.tag = "value"
    /\ ret.out.kind \in {"mps", "pair", "border"}
    /\ ret.op \notin {"to_right_canonical", "to_left_canonical",
                      "to_mixed_canonical"}
    /\ m' = ret.out.mps
    /\ pre' = m'
    /\ prev' = IF ret.op = "move_orth_centre"
               THEN Summary(ret.op, ret.arg, pre.orth_centre, Marked(pre), TRUE)
               ELSE [NoSummary EXCEPT !.fresh = TRUE]
    /\ ret' = NoCall
    /\ UNCHANGED <<N, triv, expl, calls>>
    /\ UNCHANGED others

Next ==
    \/ ToRightCanonical
    \/ ToLeftCanonical
    \/ ToMixedCanonical
    \/ Copy
    \/ Reverse
    \/ Conjugate
    \/ MoveOrthCentre
    \/ MoveOrthCentreToBorder
    \/ Explicit
    \/ EntanglementEntropy
    \/ RightCanonical
    \/ LeftCanonical
    \/ Rebind

Spec == Init /\ [][Next]_vars

---------------------------------------------------------------------------
\* The caller of the ExplicitMPS constructor: lists of up to MaxSites
\* arrays of rank 1 to 4 and of up to MaxSites + 1 singular-value vectors
\* whose norms are off 1 by 0, 1 or 2 tolerances.

RECURSIVE Lists(_, _)
Lists(S, n) ==
    IF n = 0 THEN {<<>>}
    ELSE Lists(S, n - 1)
         \cup {Append(l, x) : l \in {k \in Lists(S, n - 1) : Len(k) = n - 1},
                               x \in S}

\* No CanonicalMPS is involved.
Frozen == UNCHANGED <<N, triv, m, pre, ret, prev, calls, lookup, shaped>>

InitConstruct ==
    /\ Idle
    /\ N = 1 /\ triv = {} /\ expl = VidalForm(1)
    /\ m = NoMPS /\ pre = NoMPS /\ ret = NoCall /\ prev = NoSummary
    /\ calls = 0

\* One construction is independent of the one before it: the caller makes
\* one.
Construct ==
    /\ ctor = NoCtor
    /\ \E ranks \in Lists(1..4, MaxSites), devs \in Lists(0..2, MaxSites + 1) :
            ctor' = Constructed(ranks, devs, ExplicitMPS_init(ranks, devs))
    /\ Frozen
    /\ UNCHANGED <<expl, ecall, dmrg, dcall>>

\* CanonicalMPS(tensors, orth_centre) on raw arrays, orth_centre being None
\* or an index in 0..MaxSites.
ConstructCanonical ==
    /\ ctor = NoCtor
    /\ \E ranks \in Lists(1..4, MaxSites), orth_centre \in {None} \cup 0..MaxSites :
            ctor' = [op |-> "CanonicalMPS", ranks |-> ranks,
                     orth_centre |-> orth_centre,
                     out |-> CanonicalMPS_init(ranks, orth_centre)]
    /\ Frozen
    /\ UNCHANGED <<expl, ecall, dmrg, dcall>>

NextConstruct == Construct \/ ConstructCanonical

SpecConstruct == InitConstruct /\ [][NextConstruct]_vars

---------------------------------------------------------------------------
\* The two lookups of the centre on a CanonicalMPS of N sites built without
\* orth_centre, for every pair of flag vectors find_orth_centre can hand
\* them: move_orth_centre assigns self.orth_centre,
\* move_orth_centre_to_border names a border.

InitLookup ==
    /\ ctor = NoCtor /\ ecall = NoECall /\ dmrg = NoDMRG /\ dcall = NoDCall
    /\ shaped = NoShaped
    /\ N \in 1..MaxN
    /\ triv = {} /\ expl = VidalForm(N)
    /\ m = NoMPS /\ pre = NoMPS /\ ret = NoCall /\ prev = NoSummary
    /\ calls = 0
    /\ \E fl \in [1..N -> BOOLEAN], fr \in [1..N -> BOOLEAN] :
            lookup = Lookup(fl, fr, {}, None, "")

LookupCentre ==
    /\ "move_orth_centre" \notin lookup.asked
    /\ lookup' = [lookup EXCEPT
                    !.asked = @ \cup {"move_orth_centre"},
                    !.centre = ResolveCentre(lookup.flags_left,
                                             lookup.flags_right, N, None)]
    /\ UNCHANGED <<N, triv, expl, m, pre, ret, prev, calls>>
    /\ UNCHANGED <<ctor, ecall, dmrg, dcall, shaped>>

LookupBorder ==
    /\ "move_orth_centre_to_border" \notin lookup.asked
    /\ lookup' = [lookup EXCEPT
                    !.asked = @ \cup {"move_orth_centre_to_border"},
                    !.border = ResolveBorder(lookup.flags_left,
                                             lookup.flags_right, N)]
    /\ UNCHANGED <<N, triv, expl, m, pre, ret, prev, calls>>
    /\ UNCHANGED <<ctor, ecall, dmrg, dcall, shaped>>

NextLookup == LookupCentre \/ LookupBorder

SpecLookup == InitLookup /\ [][NextLookup]_vars

---------------------------------------------------------------------------
\* The caller of a CanonicalMPS of N sites with physical legs of size
\* PhysDim, bonds of dimension 1..MaxBond, a centre in range and a chi_max
\* in 1..MaxBond: one call of copy, reverse or move_orth_centre.

InitShapes ==
    /\ ctor = NoCtor /\ ecall = NoECall /\ dmrg = NoDMRG /\ dcall = NoDCall
    /\ lookup = NoLookup
    /\ N \in 1..MaxChain
    /\ triv = {} /\ expl = VidalForm(N)
    /\ m = NoMPS /\ pre = NoMPS /\ ret = NoCall /\ prev = NoSummary
    /\ calls = 0
    /\ \E bonds \in [0..N -> 1..MaxBond], c \in Range(0, N), chi \in 1..MaxBond :
        /\ bonds[0] = 1 /\ bonds[N] = 1
        /\ shaped = ShapedCall(
                CanonicalMPS_shapes(
                    [i \in 1..N |-> Shape(bonds[i - 1], PhysDim, bonds[i])],
                    c, chi),
                "", None, NoShapes)

ShapesCall(op, arg, out) ==
    /\ shaped.op = ""
    /\ shaped' = ShapedCall(shaped.self, op, arg, out)
    /\ UNCHANGED <<N, triv, expl, m, pre, ret, prev, calls>>
    /\ UNCHANGED <<ctor, ecall, dmrg, dcall, lookup>>

ShapesCopy == ShapesCall("copy", None, copy_shapes(shaped.self))

ShapesReverse == ShapesCall("reverse", None, reverse_shapes(shaped.self))

ShapesMoveOrthCentre ==
    \E final_pos \in (0 - 1)..N :
        ShapesCall("move_orth_centre", final_pos,
                   move_orth_centre_shapes(shaped.self, final_pos))

NextShapes == ShapesCopy \/ ShapesReverse \/ ShapesMoveOrthCentre

SpecShapes == InitShapes /\ [][NextShapes]_vars

---------------------------------------------------------------------------
\* The caller of the ExplicitMPS methods: expl is the instance it holds;
\* ecall is the last call on it: the receiver before the call, the value
\* returned and the instance the receiver was obtained from by reverse().

ExplicitCall(op, out) ==
    /\ ecall' = ECalled(op, expl, ecall.origin, out)
    /\ Frozen
    /\ UNCHANGED <<expl, ctor, dmrg, dcall>>

ExplicitReverse ==
    /\ ecall.op # "reverse"
    /\ ExplicitCall("reverse", explicit_reverse(expl))

ExplicitEntanglementEntropy ==
    /\ ecall.op # "entanglement_entropy"
    /\ ExplicitCall("entanglement_entropy", explicit_entanglement_entropy(expl))

\* The caller goes on with the ExplicitMPS reverse() returned.
ExplicitRebind ==
    /\ ecall.op = "reverse"
    /\ ecall.out # Raised("ValueError")
    /\ expl' = ecall.out
    /\ ecall' = ECalled("", NoExplicit, ecall.before, NoExplicit)
    /\ Frozen
    /\ UNCHANGED <<ctor, dmrg, dcall>>

\* One call of a two-site isometry with a site index in -1..N.
ExplicitTwoSiteLeftIso ==
    /\ ecall.op # "two_site_left_iso"
    /\ \E site \in (0 - 1)..N :
        ExplicitCall("two_site_left_iso",
                     [site |-> site, value |-> two_site_left_iso(expl, site)])

ExplicitTwoSiteRightIso ==
    /\ ecall.op # "two_site_right_iso"
    /\ \E site \in (0 - 1)..N :
        ExplicitCall("two_site_right_iso",
                     [site |-> site, value |-> two_site_right_iso(expl, site)])

\* list(...) of a generator of two-site isometries.
ExplicitTwoSiteLeftIsoIter ==
    /\ ecall.op # "two_site_left_iso_iter"
    /\ ExplicitCall("two_site_left_iso_iter",
                    Exhausted(two_site_left_iso_iter(expl)))

ExplicitTwoSiteRightIsoIter ==
    /\ ecall.op # "two_site_right_iso_iter"
    /\ ExplicitCall("two_site_right_iso_iter",
                    Exhausted(two_site_right_iso_iter(expl)))

NextExplicit ==
    \/ ExplicitReverse
    \/ ExplicitEntanglementEntropy
    \/ ExplicitRebind
    \/ ExplicitTwoSiteLeftIso
    \/ ExplicitTwoSiteRightIso
    \/ ExplicitTwoSiteLeftIsoIter
    \/ ExplicitTwoSiteRightIsoIter

SpecExplicit == Init /\ [][NextExplicit]_vars

---------------------------------------------------------------------------
\* The caller of DMRG: it builds one instance from the ExplicitMPS and an
\* MPO of L tensors of boundary dimension D, then calls its methods.

NewDMRG ==
    /\ dmrg = NoDMRG
    /\ dcall = NoDCall
    /\ \E L \in 0..(N + 1), D \in 1..MaxD :
        /\ dcall' = DCalled("__init__", MPO(L, D), dmrg,
                IF DMRG_init(expl, MPO(L, D), "chi_max", "cut", "mode")
                        \in {Raised("ValueError"), Raised("IndexError")}
                THEN DRaise(dmrg,
                            DMRG_init(expl, MPO(L, D), "chi_max", "cut",
                                      "mode").raise,
                            <<>>)
                ELSE DValue(DMRG_init(expl, MPO(L, D), "chi_max", "cut", "mode"),
                            <<>>))
        /\ dmrg' = dcall'.out.self
    /\ Frozen
    /\ UNCHANGED <<expl, ctor, ecall>>

DMRGCall(op, arg, out) ==
    /\ dmrg # NoDMRG
    /\ dcall.op = "__init__"
    /\ dcall' = DCalled(op, arg, dmrg, out)
    /\ dmrg' = out.self
    /\ Frozen
    /\ UNCHANGED <<expl, ctor, ecall>>

Sweep == DMRGCall("sweep", None, sweep(dmrg))

Run ==
    \E num_iter \in 0..MaxIter :
        DMRGCall("run", num_iter, run(DValue(dmrg, <<>>), num_iter))

UpdateBond ==
    \E i \in Range(0, N) : DMRGCall("update_bond", i, update_bond(dmrg, i))

NextDMRG ==
    \/ NewDMRG
    \/ Sweep
    \/ Run
    \/ UpdateBond

SpecDMRG == Init /\ [][NextDMRG]_vars


---------------------------------------------------------------------------
\* Properties

\* The last step was a call of op that returned a value.
Returns(op) == ret.op = op /\ ret.out.tag = "value"

InRange(i) == i \in Range(0, N)

\* C1: when the receiver's orth_centre correctly marks its centre and
\* final_pos is a site of the chain, the instance move_orth_centre returns
\* has orth_centre = final_pos, left isometries below final_pos and right
\* isometries above it.
C1_MoveSetsCentre ==
    (ret.op = "move_orth_centre" /\ Marked(pre) /\ InRange(ret.arg))
        => /\ ret.out.tag = "value"
           /\ ret.out.mps.orth_centre = ret.arg
           /\ CentreAt(ret.out.mps.tensors, ret.arg)

\* A chain in valid canonical form: orth_centre marks the centre, or it is
\* None and the chain is purely right- or purely left-canonical.
ValidForm(mps) ==
    IF mps.orth_centre = None
    THEN \/ \A i \in 1..num_sites(mps) : IsRightIso(mps.tensors[i])
         \/ \A i \in 1..num_sites(mps) : IsLeftIso(mps.tensors[i])
    ELSE Marked(mps)

\* The explicit-form contract at every site.
ExplicitContract(e) ==
    \A site \in Range(0, num_sites(e)) :
        /\ IsRightIso(single_site_right_iso(e, site))
        /\ IsLeftIso(single_site_left_iso(e, site))

\* C2: explicit() of a chain in valid canonical form returns an ExplicitMPS
\* whose single_site_right_iso(i) is a right isometry and whose
\* single_site_left_iso(i) is a left isometry at every site i, whichever
\* border the sweep ended at.
C2_ExplicitContract ==
    (Returns("explicit") /\ ValidForm(pre)) => ExplicitContract(ret.out.ex)


\* The bond between positions p and p + 1 of a chain.
BondAt(mps, p) == At(mps.tensors, p).rb

\* The singular values of the explicit form of a chain: one vector more
\* than there are sites, the ghost-bond [1.0] first and last, and at index
\* p the vector of the bond between positions p - 1 and p.
BondsInOrder(singular_values, mps) ==
    LET n == num_sites(mps)
    IN  /\ Len(singular_values) = n + 1
        /\ At(singular_values, 0) = One
        /\ At(singular_values, n) = One
        /\ \A p \in 1..(n - 1) :
            /\ At(singular_values, p).k \in {"Schmidt", "Garbage"}
            /\ At(singular_values, p).b = BondAt(mps, p - 1)

\* C3: for a CanonicalMPS of N >= 1 sites with its centre at any position,
\* explicit() completes and returns N tensors and N + 1 singular-value
\* vectors, [1.0] first and last and the internal bonds' vectors in
\* left-to-right order in between.
C3_ExplicitCompletes ==
    (ret.op = "explicit" /\ InRange(pre.orth_centre))
        => /\ ret.out.tag = "value"
           /\ Len(ret.out.ex.tensors) = N
           /\ BondsInOrder(ret.out.ex.singular_values, pre)

\* C6: a call of a method of CanonicalMPS leaves the receiver's tensors and
\* orth_centre as they were before the call, and the instance it returns
\* is a new one, never the receiver.
C6_ReceiverUnchanged ==
    ret.op \in {"copy", "reverse", "conjugate", "move_orth_centre",
                "move_orth_centre_to_border", "right_canonical",
                "left_canonical", "explicit", "entanglement_entropy"}
        => /\ m = pre
           /\ ret.out.tag = "value" => ~ret.out.same

\* C7: move_orth_centre(a) on a chain centred at a returns the receiver,
\* and move_orth_centre(b) followed by move_orth_centre(a) on its result
\* yields a chain centred at a again.
C7_MoveRoundTrip ==
    /\ (ret.op = "move_orth_centre" /\ Marked(pre) /\ ret.arg = pre.orth_centre)
        => (ret.out.tag = "value" /\ ret.out.same /\ ret.out.mps = pre)
    /\ (/\ ret.op = "move_orth_centre" /\ ret.chained
        /\ prev.op = "move_orth_centre" /\ prev.marked /\ InRange(prev.arg)
        /\ ret.arg = prev.centre)
        => (ret.out.tag = "value" /\ CentreAt(ret.out.mps.tensors, prev.centre))


\* diag(singular_values[b]) as it stands in a product of site tensors.
LamWord(b) == IF Trivial(b) THEN <<>> ELSE <<Letter("Lam", b)>>

\* Site i < k is Lambda[i].Gamma[i], site i > k is Gamma[i].Lambda[i+1] and
\* site k is Lambda[k].Gamma[k].Lambda[k+1].
MixedStructure(mps, k) ==
    /\ num_sites(mps) = N
    /\ mps.orth_centre = k
    /\ \A i \in Range(0, N) :
        LET t == At(mps.tensors, i)
        IN  /\ t.site = i /\ ~t.cj /\ t.nrm = "exact"
            /\ t.lw = IF i <= k THEN LamWord(i) ELSE <<>>
            /\ t.rw = IF i >= k THEN LamWord(i + 1) ELSE <<>>

C5_SameState ==
    (ret.op \in {"to_left_canonical", "to_right_canonical", "to_mixed_canonical"}
     /\ ret.out.tag = "value")
        => /\ num_sites(m) = N
           /\ \A i \in Range(0, N) :
                At(m.tensors, i).site = i /\ ~At(m.tensors, i).cj
           /\ \A b \in 1..(N - 1) :
                At(m.tensors, b - 1).rw \o At(m.tensors, b).lw = LamWord(b)
           /\ At(m.tensors, 0).lw = <<>>
           /\ At(m.tensors, N - 1).rw = <<>>

C5_Witness ==
    /\ Returns("to_left_canonical")
    /\ N >= 3 /\ triv = {}
    /\ At(m.tensors, 2).lw = <<Letter("Lam", 2)>>


\* C8: with orth_centre set to c, move_orth_centre_to_border goes to the
\* border nearer to c (either one when tied), reports "first" for site 0
\* and "last" for site N - 1, and sweeps at most floor((N - 1) / 2) bonds;
\* when c marks the centre, the chain returned is centred at that border.
C8_NearerBorder ==
    (ret.op = "move_orth_centre_to_border" /\ InRange(pre.orth_centre))
        => LET c == pre.orth_centre
               out == ret.out
           IN  /\ out.tag = "value"
               /\ out.border \in {"first", "last"}
               /\ c < (N - 1) - c => out.border = "first"
               /\ c > (N - 1) - c => out.border = "last"
               /\ out.swept = IF out.border = "first" THEN c ELSE (N - 1) - c
               /\ out.swept <= (N - 1) \div 2
               /\ Marked(pre) =>
                    CentreAt(out.mps.tensors,
                             IF out.border = "first" THEN 0 ELSE N - 1)

C8_Witness ==
    /\ Returns("move_orth_centre_to_border")
    /\ Marked(pre)
    /\ N = 4 /\ pre.orth_centre = 2
    /\ ret.out.border = "last"
    /\ ret.out.swept = 1

\* C9: with orth_centre c and final_pos f # c, move_orth_centre(f,
\* return_singular_values=True) returns |c - f| vectors, the k-th being the
\* one of the bond between sites min(c, f) + k and min(c, f) + k + 1.
C9_SingularValuesInOrder ==
    (/\ ret.op = "move_orth_centre" /\ ret.rsv
     /\ InRange(pre.orth_centre) /\ InRange(ret.arg)
     /\ ret.arg # pre.orth_centre)
        => LET c == pre.orth_centre
               f == ret.arg
               lo == IF c < f THEN c ELSE f
               hi == IF c < f THEN f ELSE c
           IN  /\ ret.out.tag = "value"
               /\ ret.out.kind = "pair"
               /\ Len(ret.out.sv) = hi - lo
               /\ \A k \in Range(0, hi - lo) :
                    /\ At(ret.out.sv, k).k \in {"Schmidt", "Garbage"}
                    /\ At(ret.out.sv, k).b = BondAt(pre, lo + k)

C9_Witness ==
    /\ Returns("move_orth_centre") /\ ret.rsv
    /\ ret.arg = 0 /\ pre.orth_centre = 3
    /\ Len(ret.out.sv) = 3

AllRight(mps) == \A i \in 1..num_sites(mps) : IsRightIso(mps.tensors[i])

AllLeft(mps) == \A i \in 1..num_sites(mps) : IsLeftIso(mps.tensors[i])

\* C10: with orth_centre None, a chain of right isometries resolves to
\* site 0 ("first"), a chain of left isometries to site N - 1 ("last"), a
\* chain of both to site 0, and move_orth_centre and
\* move_orth_centre_to_border complete without an error.
C10_OneSidedResolves ==
    (/\ pre.orth_centre = None
     /\ AllRight(pre) \/ AllLeft(pre)
     /\ \/ ret.op = "move_orth_centre" /\ InRange(ret.arg)
        \/ ret.op = "move_orth_centre_to_border")
        => /\ ret.out.tag = "value"
           /\ ret.op = "move_orth_centre" =>
                ret.out.self.orth_centre = IF AllRight(pre) THEN 0 ELSE N - 1
           /\ ret.op = "move_orth_centre_to_border" =>
                ret.out.border = IF AllRight(pre) THEN "first" ELSE "last"

---------------------------------------------------------------------------
\* Properties of ExplicitMPS

\* C11: constructing an ExplicitMPS fails when len(singular_values) differs
\* from len(tensors) + 1, or a tensor is not of rank 3, or the norm of a
\* singular-value vector is off 1 by more than tolerance; it succeeds for a
\* non-empty input with none of the three.
C11_ConstructorValidates ==
    ctor.op = "__init__"
        => LET rejected ==
                   \/ Len(ctor.devs) # Len(ctor.ranks) + 1
                   \/ \E i \in 1..Len(ctor.ranks) : ctor.ranks[i] # 3
                   \/ \E i \in 1..Len(ctor.devs) : ctor.devs[i] > tolerance
           IN  /\ rejected => ctor.out \in {Raised("ValueError"), Raised("IndexError")}
               /\ (~rejected /\ ctor.ranks # <<>>)
                    => ctor.out = [ranks |-> ctor.ranks, devs |-> ctor.devs]

C11_Witness ==
    /\ ctor.op = "__init__"
    /\ ctor.ranks = <<3, 3>> /\ ctor.devs = <<0, 2, 1>>
    /\ ctor.out = Raised("ValueError")

\* C12: mixed_canonical(orth_centre) raises a ValueError for every
\* orth_centre outside [0, num_sites - 1], a negative one included, hands
\* back no chain and leaves the ExplicitMPS as it was; for every orth_centre
\* inside the range it raises nothing.
C12_MixedRangeChecked ==
    ret.op = "to_mixed_canonical"
        => /\ expl = VidalForm(N)
           /\ InRange(ret.arg) => ret.out.tag = "value"
           /\ ~InRange(ret.arg)
                => /\ ret.out.tag = "raise" /\ ret.out.err = "ValueError"
                   /\ ret.out.mps = NoMPS
                   /\ m = pre

C12_Witness ==
    /\ ret.op = "to_mixed_canonical"
    /\ N >= 2 /\ ret.arg = 0 - 1
    /\ ret.out.tag = "raise" /\ ret.out.err = "ValueError"

\* C13: reverse() returns the sites in reverse order, each with its two
\* virtual legs swapped, and the singular-value list reversed; the receiver
\* is left as it was, and reverse() of the result is the original again.
C13_ReverseInvolution ==
    (ecall.op = "reverse" /\ ecall.before # NoExplicit)
        => LET e == ecall.before
               r == ecall.out
               n == num_sites(ecall.before)
           IN  /\ expl = e
               /\ r # Raised("ValueError")
               /\ num_sites(r) = n
               /\ Len(r.singular_values) = n + 1
               /\ \A i \in Range(0, n) :
                    LET t == At(e.tensors, (n - 1) - i)
                        u == At(r.tensors, i)
                    IN  /\ u.site = t.site /\ u.cj = t.cj /\ u.nrm = t.nrm
                        /\ u.lb = t.rb /\ u.rb = t.lb
                        /\ u.lw = t.rw /\ u.rw = t.lw
               /\ \A k \in Range(0, n + 1) :
                    At(r.singular_values, k) = At(e.singular_values, n - k)
               /\ ecall.origin # NoExplicit => r = ecall.origin

C13_Witness ==
    /\ ecall.op = "reverse"
    /\ N >= 3 /\ triv = {}
    /\ ecall.origin = VidalForm(N)
    /\ ecall.out = VidalForm(N)
    /\ expl # VidalForm(N)

\* C14: entanglement_entropy() of an ExplicitMPS returns N - 1 entries,
\* entry b being the entropy of singular_values[b + 1], the vector of the
\* bond between sites b and b + 1, and leaves the instance as it was.
C14_EntropyPerInternalBond ==
    ecall.op = "entanglement_entropy"
        => /\ expl = ecall.before
           /\ Len(ecall.out) = N - 1
           /\ \A b \in Range(0, N - 1) :
                At(ecall.out, b) = Entropy(At(expl.singular_values, b + 1))

\* C22: two_site_left_iso(site) and two_site_right_iso(site) return a
\* two-site tensor exactly for site in [0, N - 2] and raise ValueError for
\* every other site; a consumer of two_site_left_iso_iter() or
\* two_site_right_iso_iter() receives N - 1 tensors, one per bond, and the
\* generator is then exhausted without raising. The instance is unchanged.
C22_TwoSiteIsoRange ==
    /\ ecall.op \in {"two_site_left_iso", "two_site_right_iso"}
        => /\ expl = ecall.before
           /\ ecall.out.value # Raised("ValueError")
                <=> ecall.out.site \in Range(0, N - 1)
           /\ ecall.out.site \in Range(0, N - 1)
                => /\ ecall.out.value.a.site = ecall.out.site
                   /\ ecall.out.value.b.site = ecall.out.site + 1
    /\ ecall.op \in {"two_site_left_iso_iter", "two_site_right_iso_iter"}
        => /\ expl = ecall.before
           /\ ecall.out.err = ""
           /\ Len(ecall.out.yielded) = N - 1

---------------------------------------------------------------------------
\* Properties of DMRG

\* The bonds of one sweep: 0, ..., n - 2, then n - 2, ..., 0.
SweepOrder(n) == Upto(n - 1) \o Reversed(Upto(n - 1))

RECURSIVE Repeated(_, _)
Repeated(seq, k) == IF k <= 0 THEN <<>> ELSE seq \o Repeated(seq, k - 1)

\* C15: sweep() of a DMRG instance built from an ExplicitMPS of N sites
\* calls update_bond on bonds 0, ..., N - 2 and then on N - 2, ..., 0, one
\* after the other, and run(num_iter) performs num_iter such sweeps and
\* returns: 2 * (N - 1) * num_iter bond updates.
C15_SweepOrder ==
    /\ dcall.op = "sweep"
        => /\ dcall.out.tag = "value"
           /\ dcall.out.updates = SweepOrder(N)
    /\ dcall.op = "run"
        => /\ dcall.out.tag = "value"
           /\ dcall.out.updates = Repeated(SweepOrder(N), dcall.arg)
           /\ Len(dcall.out.updates) = 2 * (N - 1) * dcall.arg

\* C16: update_bond(i) completes having written the site tensors i and
\* i + 1, singular_values[i + 1], left_environments[i + 1] and
\* right_environments[i], and leaves every other site tensor,
\* singular-value vector and environment, the MPO, chi_max, cut and mode as
\* they were.
C16_UpdateBondFrame ==
    (dcall.op = "update_bond" /\ dcall.arg \in Range(0, N - 1))
        => LET i == dcall.arg
               old == dcall.before
               new == dcall.out.self
           IN  /\ dcall.out.tag = "value"
               /\ dcall.out.updates = <<i>>
               /\ At(new.left_environments, i + 1) # NoEnv
               /\ At(new.right_environments, i) # NoEnv
               /\ \A k \in Range(0, N) \ {i, i + 1} :
                    At(new.mps.tensors, k) = At(old.mps.tensors, k)
               /\ \A k \in Range(0, N + 1) \ {i + 1} :
                    At(new.mps.singular_values, k)
                        = At(old.mps.singular_values, k)
               /\ \A k \in Range(0, N) \ {i + 1} :
                    At(new.left_environments, k) = At(old.left_environments, k)
               /\ \A k \in Range(0, N) \ {i} :
                    At(new.right_environments, k)
                        = At(old.right_environments, k)
               /\ new.mpo = old.mpo /\ new.chi_max = old.chi_max
               /\ new.cut = old.cut /\ new.mode = old.mode

\* C17: after update_bond(i) the MPS of the DMRG instance is in explicit
\* form: with j = i + 1, single_site_left_iso(i) is the left isometry of the
\* split, single_site_right_iso(j) the right isometry, singular_values[j]
\* has norm 1 and there is one singular-value vector more than tensors.
C17_ExplicitAfterUpdate ==
    (dcall.op = "update_bond" /\ dcall.arg \in Range(0, N - 1))
        => LET i == dcall.arg
               new == dcall.out.self.mps
               split == split_two_site_tensor(GroundState(dcall.before, dcall.arg))
           IN  /\ dcall.out.tag = "value"
               /\ single_site_left_iso(new, i) = [split.u EXCEPT !.byc = ""]
               /\ IsLeftIso(single_site_left_iso(new, i))
               /\ single_site_right_iso(new, i + 1) = [split.v EXCEPT !.byc = ""]
               /\ IsRightIso(single_site_right_iso(new, i + 1))
               /\ At(new.singular_values, i + 1) = split.s
               /\ UnitNorm(At(new.singular_values, i + 1))
               /\ Len(new.singular_values) = Len(new.tensors) + 1

\* C18: after construction with an MPO of boundary dimension D,
\* left_environments[0] is the boundary with the identity at index 0,
\* right_environments[N - 1] the boundary with the identity at index D - 1,
\* the two differ when D > 1, and right_environments[k] for k < N - 1 is
\* the right boundary contracted with the right isometries of sites
\* N - 1 down to k + 1.
C18_BoundaryEnvironments ==
    (dcall.op = "__init__" /\ dcall.out.tag = "value")
        => LET D == dcall.arg.D
           IN  /\ At(dmrg.left_environments, 0).one = 0
               /\ At(dmrg.left_environments, 0).sites = <<>>
               /\ At(dmrg.right_environments, N - 1).one = D - 1
               /\ At(dmrg.right_environments, N - 1).sites = <<>>
               /\ D > 1 => At(dmrg.left_environments, 0)
                                # At(dmrg.right_environments, N - 1)
               /\ \A k \in Range(0, N - 1) :
                    /\ At(dmrg.right_environments, k).one = D - 1
                    /\ At(dmrg.right_environments, k).sites
                        = [p \in 1..((N - 1) - k) |->
                                single_site_right_iso(expl, N - p)]

\* C19: constructing a DMRG instance with len(mps) # len(mpo) raises a
\* ValueError, no instance with environments comes to exist and the MPS is
\* left as it was; with equal lengths the construction raises nothing.
C19_LengthChecked ==
    dcall.op = "__init__"
        => /\ expl = VidalForm(N)
           /\ dcall.arg.len # N
                => /\ dcall.out.tag = "raise" /\ dcall.out.err = "ValueError"
                   /\ dmrg = NoDMRG
           /\ dcall.arg.len = N
                => /\ dcall.out.tag = "value"
                   /\ dmrg.mps = expl
                   /\ Len(dmrg.left_environments) = N
                   /\ Len(dmrg.right_environments) = N

C19_Witness ==
    /\ dcall.op = "__init__"
    /\ N = 3 /\ dcall.arg.len = 4
    /\ dcall.out.tag = "raise" /\ dcall.out.err = "ValueError"
    /\ dmrg = NoDMRG

---------------------------------------------------------------------------
\* Properties of CanonicalMPS.explicit

\* The chain the full sweep of explicit() starts from, in sweep direction:
\* the copy of the relabelled receiver, reversed when the sweep runs from
\* the last site.
ChainSwept(self, border) ==
    IF border = "first" THEN copy(Relabelled(self, "first"))
    ELSE reverse(Relabelled(self, "last"))

\* The chain of a left-to-right sweep before its SVD step at bond
\* (i, i + 1): the sites below i are left isometries, those above i + 1
\* right isometries.
StepInCentre(start, i) ==
    LET tensors == SweepLoop(start, <<>>, 0, i).mps.tensors
    IN  \A p \in Range(0, Len(tensors)) :
            /\ p < i => IsLeftIso(At(tensors, p))
            /\ p > i + 1 => IsRightIso(At(tensors, p))

\* C20: the full sweep of explicit() starts from the chain that
\* move_orth_centre_to_border returned, so at each of its SVD steps the
\* sites on the left of the bond are left isometries and those on the right
\* right isometries, and every vector collected is the Schmidt spectrum of
\* its bond, for every centre c of a chain of N >= 2 sites.
C20_SweepFromBorder ==
    (ret.op = "explicit" /\ Marked(pre) /\ N >= 2)
        => /\ ret.out.tag = "value"
           /\ ChainSwept(pre, ret.out.border).tensors
                = (IF ret.out.border = "first"
                   THEN move_orth_centre_to_border(pre).mps.tensors
                   ELSE reverse(move_orth_centre_to_border(pre).mps).tensors)
           /\ \A i \in Range(0, N - 1) :
                StepInCentre(ChainSwept(pre, ret.out.border), i)
           /\ \A k \in 1..Len(ret.out.ex.singular_values) :
                ret.out.ex.singular_values[k].k \in {"One", "Schmidt"}

---------------------------------------------------------------------------
\* Properties of the environments during sweeps

\* The instance as update_bond finds it at the k-th bond update of a run of
\* sweeps over `bonds` that started from `self`.
BeforeUpdate(self, bonds, k) ==
    UpdateEach(DValue(self, <<>>), SubSeq(bonds, 1, k - 1))

\* left_environments[i] and right_environments[i + 1] are defined and are
\* the contractions of the present left isometries of sites 0..i-1 and of
\* the present right isometries of sites N-1 down to i+2.
EnvironmentsCurrent(self, i) ==
    /\ At(self.left_environments, i) # NoEnv
    /\ At(self.right_environments, i + 1) # NoEnv
    /\ At(self.left_environments, i).sites
        = [p \in 1..i |-> single_site_left_iso(self.mps, p - 1)]
    /\ At(self.right_environments, i + 1).sites
        = [p \in 1..((num_sites(self.mps) - 2) - i) |->
                single_site_right_iso(self.mps, num_sites(self.mps) - p)]

---------------------------------------------------------------------------
\* Properties of CanonicalMPS.reverse and of the argument checks

\* C24: a constructor given a tensor that is not of rank 3, whatever its
\* position in the list and whatever its rank, raises ValueError and no
\* other exception: ExplicitMPS(tensors, singular_values) and
\* CanonicalMPS(tensors, orth_centre) alike.
C24_RankReportedAsValueError ==
    (ctor.op \in {"__init__", "CanonicalMPS"}
     /\ \E i \in 1..Len(ctor.ranks) : ctor.ranks[i] # 3)
        => ctor.out = Raised("ValueError")

\* C23: reverse() maps a set orth_centre c to (N - 1) - c for every c in
\* [0, N - 1], c = 0 included, and keeps None as None; the receiver is
\* unchanged and reverse() of the result has the receiver's orth_centre
\* and tensors again.
C23_ReverseMapsCentre ==
    ret.op = "reverse"
        => /\ m = pre
           /\ ret.out.tag = "value"
           /\ ret.out.mps.orth_centre
                = IF pre.orth_centre = None THEN None
                  ELSE (N - 1) - pre.orth_centre
           /\ reverse(ret.out.mps).orth_centre = pre.orth_centre
           /\ reverse(ret.out.mps).tensors = pre.tensors

\* C25: move_orth_centre(final_pos) with final_pos outside [0, N - 1]
\* raises ValueError before the centre is looked up and before any split:
\* nothing is returned, and the receiver keeps its tensors and its
\* orth_centre, an orth_centre of None included.
C25_FinalPosChecked ==
    (ret.op = "move_orth_centre" /\ ~InRange(ret.arg))
        => /\ ret.out.tag = "raise"
           /\ ret.out.err = "ValueError"
           /\ ret.out.swept = 0
           /\ ret.out.mps = NoMPS
           /\ m = pre

\* A receiver without orth_centre whose flags would resolve to a border is
\* given final_pos = N.
C25_Witness ==
    /\ ret.op = "move_orth_centre" /\ ret.arg = N
    /\ N >= 2
    /\ pre.orth_centre = None /\ DiscoverCentre(pre) # None
    /\ ret.out.err = "ValueError"
    /\ m.orth_centre = None

\* C26: move_orth_centre(final_pos, return_singular_values=True) with
\* final_pos in [0, N - 1] on a receiver whose centre is set or can be
\* looked up returns a pair (mps, singular_values), also when final_pos is
\* the present centre, the list then being empty; so the unpacking of the
\* pair in explicit() never fails.
C26_PairReturned ==
    /\ (/\ ret.op = "move_orth_centre" /\ ret.rsv /\ InRange(ret.arg)
        /\ pre.orth_centre = None => DiscoverCentre(pre) # None)
        => /\ ret.out.tag = "value"
           /\ ret.out.kind = "pair"
           /\ ret.out.swept = 0 => ret.out.sv = <<>>
    /\ ret.op = "explicit"
        => ~(ret.out.tag = "raise" /\ ret.out.err = "TypeError")

---------------------------------------------------------------------------
\* Properties of the two lookups of the centre

\* C27: on the same flag vectors the two lookups agree: when
\* move_orth_centre_to_border reports 'first', move_orth_centre sets the
\* centre to 0; when it reports 'last', to N - 1; and the one resolves
\* nothing exactly when the other resolves nothing.
C27_LookupsAgree ==
    lookup.asked = {"move_orth_centre", "move_orth_centre_to_border"}
        => /\ lookup.border = "first" => lookup.centre = 0
           /\ lookup.border = "last" => lookup.centre = N - 1
           /\ lookup.border = "unbound" <=> lookup.centre = None

---------------------------------------------------------------------------
\* Properties of the recorded dimensions

DimensionsMatch(mps) ==
    /\ Len(mps.bond_dimensions) = Len(mps.shapes) - 1
    /\ Len(mps.phys_dimensions) = Len(mps.shapes)
    /\ \A i \in Range(0, Len(mps.shapes) - 1) :
            At(mps.bond_dimensions, i) = At(mps.shapes, i).vR
    /\ \A i \in Range(0, Len(mps.shapes)) :
            At(mps.phys_dimensions, i) = At(mps.shapes, i).p

\* C28: every CanonicalMPS handed to a caller, the ones move_orth_centre
\* returns after a sweep in either direction whose splits truncate a bond
\* included, records in bond_dimensions[i] the size of the right virtual
\* leg of tensors[i] and in phys_dimensions[i] the size of its physical
\* leg; the receiver does so as well.
C28_DimensionsMatchTensors ==
    (shaped.op # "" /\ shaped.out # Raised("ValueError"))
        => /\ DimensionsMatch(shaped.self)
           /\ DimensionsMatch(shaped.out)

=============================================================================
